---- MODULE Spec2Model ----
(***************************************************************************)
(* Model of the eBay auction scraper: the markup extraction of scraper.py  *)
(* (EbayScraper) and the interest filter of filters.py (AuctionFilter).    *)
(*                                                                         *)
(* Python str values are TLA+ strings; an Optional value is a tuple of     *)
(* length 0 (None) or 1 (the value).  Python floats are modelled by exact  *)
(* rationals [n, d] with d > 0, compared by cross-multiplication.          *)
(***************************************************************************)
EXTENDS Integers, Sequences, FiniteSets, TLC

VARIABLES
    pc,                     \* position of the modelled call
    time_text,              \* argument of _parse_time_remaining
    time_remaining_hours,   \* its result
    price_text,             \* argument of _parse_price
    current_price,          \* its result
    item_soup,              \* argument of _parse_auction_item: one listing fragment
    auction_data,           \* its result
    page,                   \* the search page that search_auctions fetches
    auctions,               \* the records search_auctions returns, the filter's input
    config,                 \* the policy the AuctionFilter was built with
    interesting_auctions,   \* the result of filter_interesting_auctions
    refiltered,             \* the result of filtering that result again
    brand_title,            \* argument of _extract_brand (its parameter title)
    detected_brand,         \* its result
    link_url,               \* argument of _extract_ebay_id (its parameter url)
    extracted_id,           \* its result
    auction_items,          \* the fragments search_auctions kept from the selectors
    notified_auctions,      \* the rows of the table notified_auctions, oldest first
    total_notifications,    \* bot_config.total_notifications
    clock,                  \* the time of day of the machine, in ticks
    utc_offset,             \* local time minus UTC, in ticks
    db_call,                \* the last call on the database and what it returned
    owed,                   \* the identifiers added with success and not cleaned up since
    auctions_sorted,        \* handle_search_query: the listings by time remaining
    top_10                  \* handle_search_query: the listings it shows

parserVars == <<time_text, time_remaining_hours, price_text, current_price>>

extractVars == <<item_soup, auction_data>>

filterVars == <<auctions, config, interesting_auctions, refiltered>>

unitVars == <<brand_title, detected_brand, link_url, extracted_id>>

searchVars == <<page, auction_items>>

storeVars == <<notified_auctions, total_notifications, clock, utc_offset, db_call, owed>>

chatVars == <<auctions_sorted, top_10>>

vars == <<pc, parserVars, extractVars, searchVars, filterVars, unitVars, storeVars, chatVars>>

-----------------------------------------------------------------------------
(* Optional values and rationals *)

None == <<>>

Some(v) == <<v>>

Val(o) == o[1]

Rat(n, d) == [n |-> n, d |-> d]

RatLe(a, b) == a.n * b.d <= b.n * a.d

RatLt(a, b) == a.n * b.d < b.n * a.d

RatEq(a, b) == a.n * b.d = b.n * a.d

-----------------------------------------------------------------------------
(* Python str primitives *)

Char(s, i) == SubSeq(s, i, i)

UpperLetters == "ABCDEFGHIJKLMNOPQRSTUVWXYZ"

LowerLetters == "abcdefghijklmnopqrstuvwxyz"

LowerChar(c) ==
    IF \E i \in 1..Len(UpperLetters) : Char(UpperLetters, i) = c
    THEN Char(LowerLetters, CHOOSE i \in 1..Len(UpperLetters) : Char(UpperLetters, i) = c)
    ELSE c

RECURSIVE Lower(_)
Lower(s) == IF Len(s) = 0 THEN "" ELSE LowerChar(Char(s, 1)) \o Lower(Tail(s))

Digits == "0123456789"

IsDigit(c) == \E i \in 1..Len(Digits) : Char(Digits, i) = c

DigitVal(c) == (CHOOSE i \in 1..Len(Digits) : Char(Digits, i) = c) - 1

\* int(s) for a non-empty string of decimal digits
RECURSIVE ToInt(_)
ToInt(s) == IF Len(s) = 0 THEN 0
            ELSE 10 * ToInt(SubSeq(s, 1, Len(s) - 1)) + DigitVal(Char(s, Len(s)))

\* p in s
Contains(s, p) ==
    \/ Len(p) = 0
    \/ \E i \in 1..(Len(s) - Len(p) + 1) : SubSeq(s, i, i + Len(p) - 1) = p

\* the strings over an alphabet of length at most n
RECURSIVE Strings(_, _)
Strings(alphabet, n) ==
    IF n = 0 THEN {""}
    ELSE LET shorter == Strings(alphabet, n - 1)
         IN  shorter \cup {s \o c : s \in shorter, c \in alphabet}

-----------------------------------------------------------------------------
(* EbayScraper._parse_time_remaining *)

\* last index of the run of digits that starts at i
RECURSIVE DigitRunEnd(_, _)
DigitRunEnd(s, i) ==
    IF i < Len(s) /\ IsDigit(Char(s, i + 1)) THEN DigitRunEnd(s, i + 1) ELSE i

\* re.search(r'(\d+)<unit>', s): whether the pattern matches at start i
UnitMatchAt(s, i, unit) ==
    /\ IsDigit(Char(s, i))
    /\ DigitRunEnd(s, i) < Len(s)
    /\ Char(s, DigitRunEnd(s, i) + 1) = unit

\* re.search(r'(\d+)<unit>', s): group(1) of the leftmost match, or None
UnitSearch(s, unit) ==
    LET starts == {i \in 1..Len(s) : UnitMatchAt(s, i, unit)}
    IN  IF starts = {} THEN None
        ELSE LET i == CHOOSE k \in starts : \A j \in starts : k <= j
             IN  Some(SubSeq(s, i, DigitRunEnd(s, i)))

SENTINEL_HOURS == 999

MINUTES_PER_HOUR == 60

HOURS_PER_DAY == 24

\* a mutant: the minutes are added as whole hours
ParseTimeRemaining_MinutesAsHours(text) ==
    IF text = None
    THEN Rat(SENTINEL_HOURS, 1)
    ELSE LET lowered == Lower(Val(text))
             days_match == UnitSearch(lowered, "d")
             hours_match == UnitSearch(lowered, "h")
             minutes_match == UnitSearch(lowered, "m")
             days == IF days_match # None THEN ToInt(Val(days_match)) * HOURS_PER_DAY ELSE 0
             hours == IF hours_match # None THEN ToInt(Val(hours_match)) ELSE 0
             minutes == IF minutes_match # None THEN ToInt(Val(minutes_match)) ELSE 0
         IN  Rat(days + hours + minutes, 1)

\* time_text is an Optional str: a non-str argument makes .lower() raise, and
\* the except branch returns the sentinel
ParseTimeRemaining(text) ==
    IF text = None
    THEN Rat(SENTINEL_HOURS, 1)
    ELSE LET lowered == Lower(Val(text))
             days_match == UnitSearch(lowered, "d")
             hours_match == UnitSearch(lowered, "h")
             minutes_match == UnitSearch(lowered, "m")
             days == IF days_match # None THEN ToInt(Val(days_match)) * HOURS_PER_DAY ELSE 0
             hours == IF hours_match # None THEN ToInt(Val(hours_match)) ELSE 0
             minutes == IF minutes_match # None THEN ToInt(Val(minutes_match)) ELSE 0
         IN  Rat((days + hours) * MINUTES_PER_HOUR + minutes, MINUTES_PER_HOUR)

-----------------------------------------------------------------------------
(* EbayScraper._parse_price *)

\* the characters of s that belong to the set keep, in order
RECURSIVE KeepChars(_, _)
KeepChars(s, keep) ==
    IF Len(s) = 0 THEN ""
    ELSE (IF Char(s, 1) \in keep THEN Char(s, 1) ELSE "") \o KeepChars(Tail(s), keep)

DigitChars == {Char(Digits, i) : i \in 1..Len(Digits)}

\* re.sub(r'[^\d.,]', '', s)
StripNonPrice(s) == KeepChars(s, DigitChars \cup {".", ","})

\* s.replace(',', '')
RemoveCommas(s) == KeepChars(s, DigitChars \cup {"."})

RECURSIVE Pow10(_)
Pow10(k) == IF k = 0 THEN 1 ELSE 10 * Pow10(k - 1)

DotPositions(s) == {i \in 1..Len(s) : Char(s, i) = "."}

\* float(s) for a string of digits and '.': None stands for ValueError
Float(s) ==
    LET dots == DotPositions(s)
    IN  IF Cardinality(dots) > 1 \/ Len(s) - Cardinality(dots) = 0
        THEN None
        ELSE IF dots = {}
        THEN Some(Rat(ToInt(s), 1))
        ELSE LET p == CHOOSE i \in dots : TRUE
                 whole == SubSeq(s, 1, p - 1)
                 frac == SubSeq(s, p + 1, Len(s))
             IN  Some(Rat(ToInt(whole \o frac), Pow10(Len(frac))))

\* a mutant: the grouping commas are kept, so float() rejects them
ParsePrice_KeepCommas(text) ==
    IF text = None
    THEN None
    ELSE LET price_clean == StripNonPrice(Val(text))
         IN  IF price_clean = "" \/ Contains(price_clean, ",") THEN None
             ELSE Float(price_clean)

\* price_text is an Optional str: a non-str argument makes re.sub raise, and
\* the except branch returns None, as it does when float() raises
ParsePrice(text) ==
    IF text = None
    THEN None
    ELSE LET price_clean == RemoveCommas(StripNonPrice(Val(text)))
         IN  IF price_clean = "" THEN None ELSE Float(price_clean)

-----------------------------------------------------------------------------
(* EbayScraper._extract_ebay_id *)

\* the character classes of the identifier patterns: \d and [^/?&]
InClass(c, kind) == IF kind = "digit" THEN IsDigit(c) ELSE c \notin {"/", "?", "&"}

\* last index of the run of characters of the class that starts at i (i - 1 if empty)
RECURSIVE ClassRunEnd(_, _, _)
ClassRunEnd(s, i, kind) ==
    IF i <= Len(s) /\ InClass(Char(s, i), kind) THEN ClassRunEnd(s, i + 1, kind) ELSE i - 1

\* re.search of <prefix>(<class>{least,}) in s: group(1) of the leftmost match, or None
PatternSearch(s, pattern) ==
    LET width == Len(pattern.prefix)
        starts == {i \in 1..Len(s) :
                      /\ i + width - 1 <= Len(s)
                      /\ SubSeq(s, i, i + width - 1) = pattern.prefix
                      /\ ClassRunEnd(s, i + width, pattern.kind) - (i + width) + 1
                            >= pattern.least}
    IN  IF starts = {} THEN None
        ELSE LET i == CHOOSE k \in starts : \A j \in starts : k <= j
             IN  Some(SubSeq(s, i + width, ClassRunEnd(s, i + width, pattern.kind)))

patterns ==
    << [prefix |-> "/itm/", kind |-> "segment", least |-> 1],
       [prefix |-> "item=", kind |-> "digit", least |-> 1],
       [prefix |-> "/", kind |-> "digit", least |-> 12],
       [prefix |-> "hash=item", kind |-> "digit", least |-> 1] >>

\* str.isdigit()
IsDigitStr(s) == Len(s) > 0 /\ \A k \in 1..Len(s) : IsDigit(Char(s, k))

MIN_ID_LEN == 8

\* whether pattern k matches url with a numeric group of reasonable length
PatternGivesId(url, k) ==
    LET match == PatternSearch(url, patterns[k])
    IN  match # None /\ IsDigitStr(Val(match)) /\ Len(Val(match)) >= MIN_ID_LEN

\* a mutant: the first pattern that matches decides, valid or not
ExtractEbayId_FirstMatchDecides(url) ==
    IF url = "" \/ ~Contains(Lower(url), "ebay.com")
    THEN None
    ELSE LET matched == {k \in 1..Len(patterns) : PatternSearch(url, patterns[k]) # None}
         IN  IF matched = {} THEN None
             ELSE LET k == CHOOSE q \in matched : \A j \in matched : q <= j
                  IN  IF PatternGivesId(url, k) THEN PatternSearch(url, patterns[k]) ELSE None

ExtractEbayId(url) ==
    IF url = "" \/ ~Contains(Lower(url), "ebay.com")
    THEN None
    ELSE LET good == {k \in 1..Len(patterns) : PatternGivesId(url, k)}
         IN  IF good = {} THEN None
             ELSE PatternSearch(url, patterns[CHOOSE k \in good : \A j \in good : k <= j])

-----------------------------------------------------------------------------
(* EbayScraper._parse_bid_info and EbayScraper._extract_brand *)

\* a || b || c over find() results: the first strategy that found a node
Cascade(found) ==
    IF found[1] # None THEN found[1]
    ELSE IF found[2] # None THEN found[2]
    ELSE found[3]

RECURSIVE StripLeft(_)
StripLeft(s) == IF Len(s) > 0 /\ Char(s, 1) = " " THEN StripLeft(Tail(s)) ELSE s

RECURSIVE StripRight(_)
StripRight(s) ==
    IF Len(s) > 0 /\ Char(s, Len(s)) = " " THEN StripRight(SubSeq(s, 1, Len(s) - 1)) ELSE s

\* node.get_text(strip=True)
GetText(node) == StripRight(StripLeft(Val(node)))

\* re.search(r'(\d+)', s): group(1) of the leftmost match, or None
FirstInteger(s) ==
    LET starts == {i \in 1..Len(s) : IsDigit(Char(s, i))}
    IN  IF starts = {} THEN None
        ELSE LET i == CHOOSE k \in starts : \A j \in starts : k <= j
             IN  Some(SubSeq(s, i, DigitRunEnd(s, i)))

\* bid_info['bids']
ParseBidInfo(item) ==
    LET bid_elem == Cascade(item.bid)
    IN  IF bid_elem # None
        THEN LET match == FirstInteger(GetText(bid_elem))
             IN  IF match # None THEN ToInt(Val(match)) ELSE 0
        ELSE 0

brands ==
    << "MacBook", "ThinkPad", "XPS", "Surface", "Alienware",
       "Dell", "Lenovo", "HP", "ASUS", "Acer", "MSI",
       "Apple", "Microsoft", "Razer", "Sony", "Toshiba" >>

\* the search keeps going after a hit, so the last entry found wins
ExtractBrand_Last(title) ==
    LET title_lower == Lower(title)
        found == {k \in 1..Len(brands) : Contains(title_lower, Lower(brands[k]))}
    IN  IF found = {} THEN None
        ELSE Some(brands[CHOOSE k \in found : \A j \in found : j <= k])

ExtractBrand(title) ==
    LET title_lower == Lower(title)
        found == {k \in 1..Len(brands) : Contains(title_lower, Lower(brands[k]))}
    IN  IF found = {} THEN None
        ELSE Some(brands[CHOOSE k \in found : \A j \in found : k <= j])

-----------------------------------------------------------------------------
(* EbayScraper._parse_auction_item *)

\* A fragment records what each find() of the extractor returns on it: for a
\* field, the text (the href, for link) of the node each of the three selector
\* strategies finds, None where a strategy finds no node.

invalid_titles ==
    << "shop on ebay", "shop on ebayopens in a new window or tab",
       "save this search", "get an alert with the newest ads",
       "sponsored", "advertisement", "" >>

\* a mutant: all() in place of any()
TitleRejected_All(title) ==
    \/ title = ""
    \/ \A k \in 1..Len(invalid_titles) : Contains(Lower(title), invalid_titles[k])

\* not title or any(invalid in title.lower() for invalid in invalid_titles)
TitleRejected(title) ==
    \/ title = ""
    \/ \E k \in 1..Len(invalid_titles) : Contains(Lower(title), invalid_titles[k])

\* the record assembled at the end of _parse_auction_item (scraped_at, the wall
\* clock reading, is left out); the keys the record does not have yet, which
\* dict.get() reads as None, hold None
AuctionData(item, title, url, ebay_id, price) ==
    LET time_elem == Cascade(item.time)
        found_text == IF time_elem # None THEN GetText(time_elem) ELSE "Unknown"
        time_remaining == IF found_text = "Unknown" THEN "Buy It Now" ELSE found_text
    IN  [ebay_id |-> ebay_id,
         title |-> title,
         url |-> url,
         current_price |-> price,
         bids |-> ParseBidInfo(item),
         time_remaining |-> time_remaining,
         time_remaining_hours |-> ParseTimeRemaining(Some(time_remaining)),
         shipping_text |-> IF item.shipping # None THEN GetText(item.shipping) ELSE "",
         brand |-> ExtractBrand(title),
         original_price |-> None,
         discount_percent |-> None,
         interest_score |-> None,
         filter_reason |-> None]

\* the steps after the title check: link, identifier, price, record
ParseAfterTitle(item, title) ==
    LET link_elem == Cascade(item.link)
    IN  IF link_elem = None THEN None
        ELSE LET url == Val(link_elem)
                 ebay_id == ExtractEbayId(url)
                 price_elem == Cascade(item.price)
             IN  IF ebay_id = None THEN None
                 ELSE IF price_elem = None THEN None
                 ELSE LET price == ParsePrice(Some(GetText(price_elem)))
                      IN  IF price = None THEN None
                          ELSE Some(AuctionData(item, title, url, Val(ebay_id), Val(price)))

ParseAuctionItem(item) ==
    LET title_elem == Cascade(item.title)
    IN  IF title_elem = None THEN None
        ELSE LET title == GetText(title_elem)
             IN  IF TitleRejected(title) THEN None
                 ELSE ParseAfterTitle(item, title)

-----------------------------------------------------------------------------
(* AuctionFilter: the six predicates of _is_auction_interesting *)

\* A record of the filter holds a number (a rational) or None in current_price,
\* original_price, discount_percent and interest_score, an Optional str in
\* brand and an Optional list in filter_reason.  The policy thresholds are
\* integers.

Whole(k) == Rat(k, 1)

PriceInRange(auction, cfg) ==
    /\ RatLe(Whole(cfg.MIN_PRICE), auction.current_price)
    /\ RatLe(auction.current_price, Whole(cfg.MAX_PRICE))

\* brand in self.config.PREMIUM_BRANDS
InList(x, list) == \E k \in 1..Len(list) : list[k] = x

\* a mutant: the brand found in the title is stored in lower case
IsPremiumBrand_StoreLower(auction, cfg) ==
    LET title == Lower(auction.title)
        brand == auction.brand
    IN  IF brand # None /\ Val(brand) # ""
        THEN [ok |-> InList(Val(brand), cfg.PREMIUM_BRANDS), auction |-> auction]
        ELSE LET found == {k \in 1..Len(cfg.PREMIUM_BRANDS) :
                              Contains(title, Lower(cfg.PREMIUM_BRANDS[k]))}
             IN  IF found = {} THEN [ok |-> FALSE, auction |-> auction]
                 ELSE LET k == CHOOSE q \in found : \A j \in found : q <= j
                      IN  [ok |-> TRUE,
                           auction |-> [auction EXCEPT
                                          !.brand = Some(Lower(cfg.PREMIUM_BRANDS[k]))]]

\* a mutant: the title is searched whenever the brand held is not a premium one
IsPremiumBrand_TitleAlso(auction, cfg) ==
    LET title == Lower(auction.title)
        brand == auction.brand
    IN  IF brand # None /\ Val(brand) # "" /\ InList(Val(brand), cfg.PREMIUM_BRANDS)
        THEN [ok |-> TRUE, auction |-> auction]
        ELSE LET found == {k \in 1..Len(cfg.PREMIUM_BRANDS) :
                              Contains(title, Lower(cfg.PREMIUM_BRANDS[k]))}
             IN  IF found = {} THEN [ok |-> FALSE, auction |-> auction]
                 ELSE LET k == CHOOSE q \in found : \A j \in found : q <= j
                      IN  [ok |-> TRUE,
                           auction |-> [auction EXCEPT !.brand = Some(cfg.PREMIUM_BRANDS[k])]]

\* the verdict, and the record with the brand found in the title stored on it
IsPremiumBrand(auction, cfg) ==
    LET title == Lower(auction.title)
        brand == auction.brand
    IN  IF brand # None /\ Val(brand) # ""
        THEN [ok |-> InList(Val(brand), cfg.PREMIUM_BRANDS), auction |-> auction]
        ELSE LET found == {k \in 1..Len(cfg.PREMIUM_BRANDS) :
                              Contains(title, Lower(cfg.PREMIUM_BRANDS[k]))}
             IN  IF found = {} THEN [ok |-> FALSE, auction |-> auction]
                 ELSE LET k == CHOOSE q \in found : \A j \in found : q <= j
                      IN  [ok |-> TRUE,
                           auction |-> [auction EXCEPT !.brand = Some(cfg.PREMIUM_BRANDS[k])]]

\* a mutant: a duration of zero is let through
TimeRemainingValid_NoLower(auction, cfg) ==
    RatLe(auction.time_remaining_hours, Whole(cfg.MAX_TIME_REMAINING_HOURS))

TimeRemainingValid(auction, cfg) ==
    /\ RatLt(Whole(0), auction.time_remaining_hours)
    /\ RatLe(auction.time_remaining_hours, Whole(cfg.MAX_TIME_REMAINING_HOURS))

HasMinimumActivity(auction, cfg) == auction.bids >= cfg.MIN_BIDS

HasExcludedKeywords(auction, cfg) ==
    LET title == Lower(auction.title)
    IN  \E k \in 1..Len(cfg.EXCLUDE_KEYWORDS) : Contains(title, Lower(cfg.EXCLUDE_KEYWORDS[k]))

desirable_brands == << "MacBook", "ThinkPad", "XPS", "Surface" >>

DESIRABLE_MAX_PRICE == 1500

DESIRABLE_MIN_BIDS == 5

OTHER_MAX_PRICE == 800

\* brand = auction.get('brand', ''): the str, '' when the key is absent
BrandStr(auction) == IF auction.brand = None THEN "" ELSE Val(auction.brand)

\* a mutant: the desirable brands are priced against the policy's maximum
AlternativeValueCheck_PolicyMax(auction, cfg) ==
    LET brand == BrandStr(auction)
    IN  \/ /\ \E k \in 1..Len(desirable_brands) : Contains(brand, desirable_brands[k])
           /\ RatLe(auction.current_price, Whole(cfg.MAX_PRICE))
           /\ auction.bids >= DESIRABLE_MIN_BIDS
        \/ /\ RatLe(auction.current_price, Whole(OTHER_MAX_PRICE))
           /\ auction.bids >= cfg.MIN_BIDS

AlternativeValueCheck(auction, cfg) ==
    LET brand == BrandStr(auction)
    IN  \/ /\ \E k \in 1..Len(desirable_brands) : Contains(brand, desirable_brands[k])
           /\ RatLe(auction.current_price, Whole(DESIRABLE_MAX_PRICE))
           /\ auction.bids >= DESIRABLE_MIN_BIDS
        \/ /\ RatLe(auction.current_price, Whole(OTHER_MAX_PRICE))
           /\ auction.bids >= cfg.MIN_BIDS

\* ((original_price - current_price) / original_price) * 100
DiscountPercent(original_price, price) ==
    Rat((original_price.n * price.d - price.n * original_price.d) * 100,
        original_price.n * price.d)

\* the verdict, and the record with the computed discount stored on it
HasGoodDiscount(auction, cfg) ==
    LET price == auction.current_price
        original_price == auction.original_price
    IN  IF original_price = None \/ original_price.n = 0 \/ RatLe(original_price, price)
        THEN [ok |-> AlternativeValueCheck(auction, cfg), auction |-> auction]
        ELSE LET discount_percent == DiscountPercent(original_price, price)
             IN  [ok |-> RatLe(Whole(cfg.MIN_DISCOUNT_PERCENT), discount_percent),
                  auction |-> [auction EXCEPT !.discount_percent = discount_percent]]

\* _is_auction_interesting: "raise" when current_price holds None, which the
\* comparison of _price_in_range cannot order; the record comes back as the
\* predicates left it
IsAuctionInteresting(auction, cfg) ==
    IF auction.current_price = None
    THEN [verdict |-> "raise", auction |-> auction]
    ELSE IF ~PriceInRange(auction, cfg)
    THEN [verdict |-> "fail", auction |-> auction]
    ELSE LET branded == IsPremiumBrand(auction, cfg)
         IN  IF ~branded.ok
             THEN [verdict |-> "fail", auction |-> branded.auction]
             ELSE IF \/ ~TimeRemainingValid(branded.auction, cfg)
                     \/ ~HasMinimumActivity(branded.auction, cfg)
                     \/ HasExcludedKeywords(branded.auction, cfg)
             THEN [verdict |-> "fail", auction |-> branded.auction]
             ELSE LET valued == HasGoodDiscount(branded.auction, cfg)
                  IN  [verdict |-> IF valued.ok THEN "pass" ELSE "fail",
                       auction |-> valued.auction]

-----------------------------------------------------------------------------
(* AuctionFilter._calculate_interest_score and _get_filter_reasons *)

\* round(n / d) for n >= 0 and d > 0, halves to the even neighbour
RoundHalfEven(n, d) ==
    LET q == n \div d
        r == n % d
    IN  IF 2 * r < d THEN q
        ELSE IF 2 * r > d THEN q + 1
        ELSE q + (q % 2)

premium_bonus ==
    << [premium |-> "MacBook", bonus |-> 3],
       [premium |-> "ThinkPad", bonus |-> 2],
       [premium |-> "XPS", bonus |-> 2],
       [premium |-> "Surface", bonus |-> 2],
       [premium |-> "Alienware", bonus |-> 3] >>

\* the bonus of the first entry of premium_bonus found in the brand
BrandBonus(brand) ==
    LET found == {k \in 1..Len(premium_bonus) : Contains(brand, premium_bonus[k].premium)}
    IN  IF found = {} THEN 0
        ELSE premium_bonus[CHOOSE k \in found : \A j \in found : k <= j].bonus

\* a mutant: the points for bids are not capped
BidPoints_NoCap(bids) == Rat(bids, 2)

\* min(bids / 2, 10), in halves
BidPoints(bids) == IF bids <= 20 THEN Rat(bids, 2) ELSE Whole(10)

UrgencyPoints(time_hours) ==
    IF RatLe(time_hours, Whole(1)) THEN 5
    ELSE IF RatLe(time_hours, Whole(2)) THEN 3
    ELSE IF RatLe(time_hours, Whole(3)) THEN 1
    ELSE 0

PricePoints(price) ==
    IF RatLe(price, Whole(500)) THEN 3
    ELSE IF RatLe(price, Whole(800)) THEN 2
    ELSE IF RatLe(price, Whole(1200)) THEN 1
    ELSE 0

RatAdd(a, b) == Rat(a.n * b.d + b.n * a.d, a.d * b.d)

\* the score, rounded to 2 decimals: a rational with denominator 100
CalculateInterestScore(auction) ==
    LET discount == IF auction.discount_percent = None THEN Whole(0)
                    ELSE auction.discount_percent
        from_discount == IF RatLt(Whole(0), discount) THEN Rat(discount.n, discount.d * 10)
                         ELSE Whole(0)
        fixed == UrgencyPoints(auction.time_remaining_hours) + BrandBonus(BrandStr(auction))
                 + PricePoints(auction.current_price)
        score == RatAdd(RatAdd(from_discount, BidPoints(auction.bids)), Whole(fixed))
    IN  Rat(RoundHalfEven(score.n * 100, score.d), 100)

\* the reasons in the order the code appends them; the discount is shown with
\* one decimal
GetFilterReasons(auction, cfg) ==
    LET discount == auction.discount_percent
    IN  (IF auction.brand # None /\ Val(auction.brand) # ""
         THEN << <<"Marca premium", Val(auction.brand)>> >> ELSE <<>>)
        \o (IF discount # None /\ RatLt(Whole(0), discount)
            THEN << <<"Descuento", Rat(RoundHalfEven(discount.n * 10, discount.d), 10)>> >>
            ELSE <<>>)
        \o (IF auction.bids >= cfg.MIN_BIDS
            THEN << <<"Actividad alta", auction.bids>> >> ELSE <<>>)
        \o (IF RatLe(auction.time_remaining_hours, Whole(1))
            THEN << <<"Termina pronto">> >> ELSE <<>>)
        \o (IF RatLe(auction.current_price, Whole(500))
            THEN << <<"Precio muy atractivo">> >> ELSE <<>>)

-----------------------------------------------------------------------------
(* AuctionFilter.filter_interesting_auctions *)

\* one turn of the loop: the record as the turn leaves it, and whether it was
\* appended to interesting_auctions
\* the body of the try block of one turn of the loop: it raises when
\* _is_auction_interesting does
\* a mutant: a record that is not kept gets back the fields it came with
TryOne_RestoreOnFail(auction, cfg) ==
    LET checked == IsAuctionInteresting(auction, cfg)
    IN  IF checked.verdict = "pass"
        THEN LET reasoned == [checked.auction EXCEPT
                                 !.filter_reason = Some(GetFilterReasons(checked.auction, cfg))]
             IN  [raised |-> FALSE, kept |-> TRUE,
                  auction |-> [reasoned EXCEPT
                                 !.interest_score = CalculateInterestScore(reasoned)]]
        ELSE [raised |-> checked.verdict = "raise", kept |-> FALSE, auction |-> auction]

TryOne(auction, cfg) ==
    LET checked == IsAuctionInteresting(auction, cfg)
    IN  IF checked.verdict = "pass"
        THEN LET reasoned == [checked.auction EXCEPT
                                 !.filter_reason = Some(GetFilterReasons(checked.auction, cfg))]
             IN  [raised |-> FALSE, kept |-> TRUE,
                  auction |-> [reasoned EXCEPT
                                 !.interest_score = CalculateInterestScore(reasoned)]]
        ELSE [raised |-> checked.verdict = "raise", kept |-> FALSE,
              auction |-> checked.auction]

\* a mutant: the turn has no handler, what the evaluation raises leaves the loop
FilterOne_NoHandler(auction, cfg) == TryOne(auction, cfg)

\* one turn of the loop: the handler logs what was raised and the loop goes on
FilterOne(auction, cfg) == [TryOne(auction, cfg) EXCEPT !.raised = FALSE]

\* x.get('interest_score', 0)
SortKey(auction) == IF auction.interest_score = None THEN Whole(0) ELSE auction.interest_score

\* a mutant: an ascending sort that is then reversed, which reverses the ties
InsertByScore_Reversed(sorted, auction) ==
    LET ahead == {k \in 1..Len(sorted) : RatLt(SortKey(auction), SortKey(sorted[k]))}
        n == Cardinality(ahead)
    IN  SubSeq(sorted, 1, n) \o <<auction>> \o SubSeq(sorted, n + 1, Len(sorted))

\* list.sort(key=..., reverse=True) is stable: a record goes after every record
\* whose key is not smaller
InsertByScore(sorted, auction) ==
    LET ahead == {k \in 1..Len(sorted) : RatLe(SortKey(auction), SortKey(sorted[k]))}
        n == Cardinality(ahead)
    IN  SubSeq(sorted, 1, n) \o <<auction>> \o SubSeq(sorted, n + 1, Len(sorted))

RECURSIVE SortByScore(_)
SortByScore(list) ==
    IF Len(list) = 0 THEN <<>>
    ELSE InsertByScore(SortByScore(SubSeq(list, 1, Len(list) - 1)), list[Len(list)])

RECURSIVE KeptOf(_)
KeptOf(turns) ==
    IF Len(turns) = 0 THEN <<>>
    ELSE KeptOf(SubSeq(turns, 1, Len(turns) - 1))
         \o (IF turns[Len(turns)].kept THEN <<turns[Len(turns)].auction>> ELSE <<>>)

\* the argument list as the call leaves it (the records are changed in place)
\* and the list the call returns
FilterInterestingAuctions(list, cfg) ==
    LET turns == [k \in 1..Len(list) |-> FilterOne(list[k], cfg)]
    IN  [raised |-> \E k \in 1..Len(list) : turns[k].raised,
         auctions |-> [k \in 1..Len(list) |-> turns[k].auction],
         interesting_auctions |-> SortByScore(KeptOf(turns))]

-----------------------------------------------------------------------------
(* EbayScraper.search_auctions *)

\* A page records the outcome of the fetch ("ok", or "error" for a request
\* error or a non-success status) and the fragments each of the three container
\* selectors finds in the markup, in document order.

MIN_ITEMS == 5

\* a mutant: every selector is consulted and the largest set is kept
AuctionItems_AlwaysLargest(found) ==
    LET first == found[1]
        second == IF Len(found[2]) > Len(first) THEN found[2] ELSE first
    IN  IF Len(found[3]) > Len(second) THEN found[3] ELSE second

\* the fragments kept by the selector cascade
AuctionItems(found) ==
    LET first == found[1]
        second == IF Len(first) < MIN_ITEMS /\ Len(found[2]) > Len(first)
                  THEN found[2] ELSE first
    IN  IF Len(second) < MIN_ITEMS /\ Len(found[3]) > Len(second)
        THEN found[3] ELSE second

\* the loop over auction_items: the records of the fragments that give one
RECURSIVE ParseItems(_)
ParseItems(items) ==
    IF Len(items) = 0 THEN <<>>
    ELSE ParseItems(SubSeq(items, 1, Len(items) - 1)) \o ParseAuctionItem(items[Len(items)])

\* the try block: the fetch raises on a request error or a non-success status,
\* before any fragment is looked for; otherwise the cascade and the loop run
TryBlock(p) ==
    IF p.status # "ok"
    THEN [raised |-> TRUE, auction_items |-> <<>>, auctions |-> <<>>]
    ELSE [raised |-> FALSE, auction_items |-> AuctionItems(p.found),
          auctions |-> ParseItems(AuctionItems(p.found))]

\* the try block without its two handlers: the exception leaves the call
SearchOutcome_NoHandler(p) == TryBlock(p)

\* the whole call: both handlers log and fall through to the return
SearchOutcome(p) == [TryBlock(p) EXCEPT !.raised = FALSE]

\* the list search_auctions returns
SearchAuctions(p) == SearchOutcome(p).auctions

-----------------------------------------------------------------------------
(* The variables a specification does not use stay at their initial values *)

ParserIdle ==
    /\ time_text = None
    /\ time_remaining_hours = None
    /\ price_text = None
    /\ current_price = None

ExtractIdle ==
    /\ item_soup = None
    /\ auction_data = None

UnitIdle ==
    /\ brand_title = None
    /\ detected_brand = None
    /\ link_url = None
    /\ extracted_id = None

ChatIdle ==
    /\ auctions_sorted = <<>>
    /\ top_10 = <<>>

StoreIdle ==
    /\ notified_auctions = <<>>
    /\ total_notifications = 0
    /\ clock = 0
    /\ utc_offset = 0
    /\ db_call = None
    /\ owed = {}

PipelineIdle ==
    /\ page = None
    /\ auction_items = <<>>
    /\ auctions = <<>>
    /\ config = None
    /\ interesting_auctions = <<>>
    /\ refiltered = <<>>

-----------------------------------------------------------------------------
(* Specification of the duration parser on bounded inputs *)

MaxTextLen == 3

TimeAlphabet == {"1", "2", "d", "h", "m", "H", " ", "b"}

TimeExamples == {"2d 3h 30m", "5h", "Buy It Now", "2h 15m", "5d", "10h 5m", "12D", "3 days"}

TimeTexts == {None} \cup {Some(s) : s \in Strings(TimeAlphabet, MaxTextLen) \cup TimeExamples}

InitDuration ==
    /\ pc = "call"
    /\ time_text \in TimeTexts
    /\ time_remaining_hours = None
    /\ price_text = None
    /\ current_price = None
    /\ ExtractIdle
    /\ PipelineIdle
    /\ UnitIdle
    /\ StoreIdle
    /\ ChatIdle

ParseTimeRemainingCall ==
    /\ pc = "call"
    /\ time_remaining_hours' = Some(ParseTimeRemaining(time_text))
    /\ pc' = "returned"
    /\ UNCHANGED <<time_text, price_text, current_price, extractVars, searchVars, filterVars, unitVars, storeVars, chatVars>>

NextDuration == ParseTimeRemainingCall

SpecDuration == InitDuration /\ [][NextDuration]_vars

-----------------------------------------------------------------------------
(* Specification of the price parser on bounded inputs *)

PriceAlphabet == {"1", "0", "5", ".", ",", "$", "-", " "}

PriceExamples == {"$1,234.56", "Free", "$450.00", "$2,000.00", "1.2.3", "-5.00",
                  "US $12.50", "$10.00 to $20.00"}

PriceTexts == {None} \cup {Some(s) : s \in Strings(PriceAlphabet, MaxTextLen) \cup PriceExamples}

InitPrice ==
    /\ pc = "call"
    /\ price_text \in PriceTexts
    /\ current_price = None
    /\ time_text = None
    /\ time_remaining_hours = None
    /\ ExtractIdle
    /\ PipelineIdle
    /\ UnitIdle
    /\ StoreIdle
    /\ ChatIdle

ParsePriceCall ==
    /\ pc = "call"
    /\ current_price' = Some(ParsePrice(price_text))
    /\ pc' = "returned"
    /\ UNCHANGED <<price_text, time_text, time_remaining_hours, extractVars, searchVars, filterVars, unitVars, storeVars, chatVars>>

NextPrice == ParsePriceCall

SpecPrice == InitPrice /\ [][NextPrice]_vars

-----------------------------------------------------------------------------
(* Specification of the listing extractor on a set of fragments *)

OnlyFirst(text) == <<Some(text), None, None>>

OnlySecond(text) == <<None, Some(text), None>>

OnlyThird(text) == <<None, None, Some(text)>>

NoNode == <<None, None, None>>

UrlItm == "https://www.ebay.com/itm/123456789012"

UrlShortId == "https://www.ebay.com/itm/123"

UrlItemParam == "https://www.EBAY.com/sch?item=20045678&x=1"

UrlSlug == "https://www.ebay.com/itm/MacBook-Pro/334455667788?hash=item4dd1"

UrlOtherSite == "https://example.org/itm/123456789012"

TitleNodes ==
    { NoNode, OnlyFirst("MacBook Pro 13"), OnlySecond(" Generic Laptop 15 "),
      OnlyThird("Dell XPS 13 Laptop"), OnlyFirst(""), OnlyFirst("Shop on eBay"),
      OnlySecond("Save this search"), OnlyFirst("SPONSORED ThinkPad T480") }

LinkNodes ==
    { NoNode, OnlyFirst(UrlItm), OnlySecond(UrlShortId), OnlyThird(UrlItemParam),
      OnlySecond(UrlSlug), OnlyFirst(""), OnlyThird(UrlOtherSite) }

PriceNodes ==
    { NoNode, OnlyFirst("$450.00"), OnlySecond("$2,000.00"), OnlyThird("Free"),
      OnlyFirst("$10.00 to $20.00") }

ActivityNodes ==
    { [bid |-> OnlyFirst("8 bids"), time |-> OnlyFirst("2h 15m"), shipping |-> Some("Free shipping")],
      [bid |-> OnlySecond("1 bid"), time |-> OnlyThird("5d"), shipping |-> None],
      [bid |-> NoNode, time |-> NoNode, shipping |-> None] }

Fragment(title, link, price, activity) ==
    [title |-> title, link |-> link, price |-> price,
     bid |-> activity.bid, time |-> activity.time, shipping |-> activity.shipping]

Fragments ==
    {Fragment(t, l, p, a) : t \in TitleNodes, l \in LinkNodes, p \in PriceNodes,
                            a \in ActivityNodes}

InitExtract ==
    /\ pc = "call"
    /\ item_soup \in {Some(f) : f \in Fragments}
    /\ auction_data = None
    /\ ParserIdle
    /\ PipelineIdle
    /\ UnitIdle
    /\ StoreIdle
    /\ ChatIdle

ParseAuctionItemCall ==
    /\ pc = "call"
    /\ auction_data' = ParseAuctionItem(Val(item_soup))
    /\ pc' = "returned"
    /\ UNCHANGED <<item_soup, parserVars, searchVars, filterVars, unitVars, storeVars, chatVars>>

NextExtract == ParseAuctionItemCall

SpecExtract == InitExtract /\ [][NextExtract]_vars

-----------------------------------------------------------------------------
(* Specification of the filter on bounded batches of records *)

MaxAuctions == 2

\* the sequences over a set of length at most n
RECURSIVE SeqsUpTo(_, _)
SeqsUpTo(set, n) ==
    IF n = 0 THEN {<<>>}
    ELSE LET shorter == SeqsUpTo(set, n - 1)
         IN  shorter \cup {Append(q, x) : q \in shorter, x \in set}

Minutes(k) == Rat(k, 60)

Listing(title, brand, price, original_price, bids, hours) ==
    [ebay_id |-> "",
     title |-> title,
     url |-> UrlItm,
     current_price |-> price,
     bids |-> bids,
     time_remaining |-> "",
     time_remaining_hours |-> hours,
     shipping_text |-> "",
     brand |-> brand,
     original_price |-> original_price,
     discount_percent |-> None,
     interest_score |-> None,
     filter_reason |-> None]

ListingAir == Listing("Apple MacBook Air M1", Some("MacBook"), Whole(450), None, 5, Minutes(150))

ListingThinkPad == Listing("Lenovo ThinkPad T480", Some("ThinkPad"), Whole(450), None, 7, Minutes(150))

ListingDell == Listing("Dell Latitude 7490", Some("Dell"), Whole(700), None, 4, Minutes(300))

ListingUnbranded == Listing("macbook pro 2019 16 inch", None, Whole(1300), Whole(2000), 6, Minutes(30))

ListingBroken == Listing("MacBook Pro BROKEN screen", Some("MacBook"), Whole(300), None, 9, Minutes(90))

ListingGeneric == Listing("Generic Laptop 15", None, Whole(2000), None, 1, Minutes(7200))

ListingEnded == Listing("MacBook Pro 13", Some("MacBook"), Whole(450), None, 8, Minutes(0))

ListingSmallDiscount == Listing("surface laptop 4", None, Rat(45050, 100), Whole(460), 4, Minutes(600))

ListingNoPrice == Listing("MacBook Air 2020", Some("MacBook"), None, None, 8, Minutes(60))

ListingAccessory == Listing("HP charger for MacBook", Some("HP"), Whole(120), None, 6, Minutes(45))

ListingDear == Listing("MacBook Pro 16 M2 Max", Some("MacBook"), Whole(1600), None, 9, Minutes(200))

ListingDearDiscounted == Listing("MacBook Pro 16 M3", Some("MacBook"), Whole(1600), Whole(2000), 9, Minutes(200))

Listings ==
    { ListingAir, ListingThinkPad, ListingDell, ListingUnbranded, ListingBroken,
      ListingGeneric, ListingEnded, ListingSmallDiscount, ListingNoPrice,
      ListingAccessory, ListingDear, ListingDearDiscounted }

\* the identifier of the k-th listing of a page: identifiers are unique
IdOf(k) == "11000000000" \o Char(Digits, k + 1)

WithIds(list) == [k \in 1..Len(list) |-> [list[k] EXCEPT !.ebay_id = IdOf(k)]]

\* the batch of the sorting example: scores 4.0, 9.5, 9.5
TieBatch == <<ListingDell, ListingAir, ListingThinkPad>>

\* the listings that make up the longer batches
CoreListings ==
    { ListingAir, ListingThinkPad, ListingDell, ListingUnbranded, ListingNoPrice,
      ListingAccessory }

\* every batch of up to two listings, and the batches of up to MaxAuctions core ones
Batches ==
    {WithIds(list) : list \in {<<>>} \cup {<<a>> : a \in Listings}
                              \cup {<<a, b>> : a \in Listings, b \in Listings}
                              \cup SeqsUpTo(CoreListings, MaxAuctions) \cup {TieBatch}}

PolicyNarrow ==
    [MIN_PRICE |-> 100, MAX_PRICE |-> 1500, PREMIUM_BRANDS |-> <<"MacBook">>,
     MAX_TIME_REMAINING_HOURS |-> 48, MIN_BIDS |-> 3, EXCLUDE_KEYWORDS |-> <<>>,
     MIN_DISCOUNT_PERCENT |-> 10]

PolicyWide ==
    [MIN_PRICE |-> 200, MAX_PRICE |-> 3000,
     PREMIUM_BRANDS |-> <<"Surface", "MacBook", "ThinkPad", "Dell">>,
     MAX_TIME_REMAINING_HOURS |-> 24, MIN_BIDS |-> 4, EXCLUDE_KEYWORDS |-> <<"Broken", "parts">>,
     MIN_DISCOUNT_PERCENT |-> 10]

Policies == {PolicyNarrow, PolicyWide}

\* a policy whose premium brands are model names, and listings for it
PolicyModels ==
    [MIN_PRICE |-> 100, MAX_PRICE |-> 2000,
     PREMIUM_BRANDS |-> <<"MacBook Pro", "Alienware", "Surface">>,
     MAX_TIME_REMAINING_HOURS |-> 24, MIN_BIDS |-> 2, EXCLUDE_KEYWORDS |-> <<"parts">>,
     MIN_DISCOUNT_PERCENT |-> 20]

ListingProModel == Listing("macbook pro 14 m1", None, Whole(1000), None, 6, Minutes(100))

ListingAlienware ==
    Listing("Alienware m15 R6", Some("Alienware"), Whole(1100), Whole(2200), 25, Minutes(50))

ListingSurface == Listing("Microsoft Surface Pro 7", Some("Surface"), Whole(900), None, 4, Minutes(170))

ListingFree == Listing("Alienware x14 giveaway", None, Whole(0), Whole(1000), 30, Minutes(10))

ModelListings == {ListingProModel, ListingAlienware, ListingSurface, ListingFree, ListingDear}

ModelBatches == {WithIds(<<a>>) : a \in ModelListings}
                \cup {WithIds(<<a, b>>) : a \in ModelListings, b \in ModelListings}

PolicyFree == [PolicyModels EXCEPT !.MIN_PRICE = 0]

\* the batches each policy is applied to
FilterInputs ==
    {[auctions |-> b, config |-> c] : b \in Batches, c \in Policies}
    \cup {[auctions |-> b, config |-> c] : b \in ModelBatches, c \in {PolicyModels, PolicyFree}}

InitFilter ==
    /\ pc = "filter"
    /\ \E input \in FilterInputs : /\ auctions = input.auctions
                                   /\ config = Some(input.config)
    /\ interesting_auctions = <<>>
    /\ refiltered = <<>>
    /\ page = None
    /\ auction_items = <<>>
    /\ ParserIdle
    /\ ExtractIdle
    /\ UnitIdle
    /\ StoreIdle
    /\ ChatIdle

\* interesting = filter.filter_interesting_auctions(auctions)
FilterCall ==
    /\ pc = "filter"
    /\ LET result == FilterInterestingAuctions(auctions, Val(config))
       IN  /\ auctions' = result.auctions
           /\ interesting_auctions' = result.interesting_auctions
           /\ pc' = (IF result.raised THEN "raised" ELSE "filtered")
    /\ UNCHANGED <<config, refiltered, searchVars, parserVars, extractVars, unitVars, storeVars, chatVars>>

\* again = filter.filter_interesting_auctions(interesting)
RefilterCall ==
    /\ pc = "filtered"
    /\ LET result == FilterInterestingAuctions(interesting_auctions, Val(config))
       IN  /\ interesting_auctions' = result.auctions
           /\ refiltered' = result.interesting_auctions
           /\ pc' = (IF result.raised THEN "raised" ELSE "refiltered")
    /\ UNCHANGED <<auctions, config, searchVars, parserVars, extractVars, unitVars, storeVars, chatVars>>

NextFilter == FilterCall \/ RefilterCall

SpecFilter == InitFilter /\ [][NextFilter]_vars

-----------------------------------------------------------------------------
(* Specification of the pipeline: search_auctions, then the filter *)

MaxItems == 2

MaxFound == 6

FragMacBook ==
    Fragment(OnlyFirst("MacBook Pro 13"), OnlyFirst(UrlItm), OnlyFirst("$450.00"),
             [bid |-> OnlyFirst("8 bids"), time |-> OnlyFirst("2h 15m"),
              shipping |-> Some("Free shipping")])

FragGeneric ==
    Fragment(OnlySecond(" Generic Laptop 15 "), OnlySecond(UrlSlug), OnlySecond("$2,000.00"),
             [bid |-> OnlySecond("1 bid"), time |-> OnlyThird("5d"), shipping |-> None])

FragSaveSearch ==
    Fragment(OnlySecond("Save this search"), NoNode, NoNode,
             [bid |-> NoNode, time |-> NoNode, shipping |-> None])

FragShortId ==
    Fragment(OnlyFirst("SPONSORED ThinkPad T480"), OnlySecond(UrlShortId), OnlyFirst("$450.00"),
             [bid |-> NoNode, time |-> NoNode, shipping |-> None])

FragDell ==
    Fragment(OnlyThird("Dell XPS 13 Laptop"), OnlyThird(UrlItemParam), OnlyThird("Free"),
             [bid |-> OnlySecond("1 bid"), time |-> OnlyThird("5d"), shipping |-> None])

PageFragments == {FragMacBook, FragGeneric, FragSaveSearch, FragShortId, FragDell}

RECURSIVE Repeat(_, _)
Repeat(x, n) == IF n = 0 THEN <<>> ELSE Append(Repeat(x, n - 1), x)

OkPage(found) == [status |-> "ok", found |-> found]

\* the page of the end-to-end scenario
ScenarioPage == OkPage(<< <<FragMacBook, FragGeneric, FragSaveSearch>>, <<>>, <<>> >>)

Pages ==
    {OkPage(<<items, <<>>, <<>>>>) : items \in SeqsUpTo(PageFragments, MaxItems)}
    \cup {OkPage(<<Repeat(FragMacBook, a), Repeat(FragGeneric, b), Repeat(FragDell, c)>>) :
             a \in 0..MaxFound, b \in 0..MaxFound, c \in 0..MaxFound}
    \cup {ScenarioPage}
    \cup {[status |-> "error", found |-> <<<<>>, <<>>, <<>>>>]}

Init ==
    /\ pc = "search"
    /\ page \in {Some(p) : p \in Pages}
    /\ config \in {Some(cfg) : cfg \in Policies}
    /\ auctions = <<>>
    /\ interesting_auctions = <<>>
    /\ refiltered = <<>>
    /\ auction_items = <<>>
    /\ ParserIdle
    /\ ExtractIdle
    /\ UnitIdle
    /\ StoreIdle
    /\ ChatIdle

\* auctions = scraper.search_auctions(query)
SearchAuctionsCall ==
    /\ pc = "search"
    /\ LET outcome == SearchOutcome(Val(page))
       IN  /\ auction_items' = outcome.auction_items
           /\ auctions' = (IF outcome.raised THEN auctions ELSE SearchAuctions(Val(page)))
           /\ pc' = (IF outcome.raised THEN "raised" ELSE "filter")
    /\ UNCHANGED <<page, config, interesting_auctions, refiltered, parserVars, extractVars, unitVars, storeVars, chatVars>>

Next == SearchAuctionsCall \/ FilterCall

Spec == Init /\ [][Next]_vars

-----------------------------------------------------------------------------
(* Claims about the duration parser *)

UnitMarkers == {"d", "h", "m"}

\* some digit of s is immediately followed by a unit marker, in either case
HasUnitPattern(s) ==
    \E j \in 1..(Len(s) - 1) : IsDigit(Char(s, j)) /\ LowerChar(Char(s, j + 1)) \in UnitMarkers

\* C8: a text in which no unit pattern matches parses to the sentinel 999.0
C8_NoUnitGivesSentinel ==
    (pc = "returned" /\ time_text # None /\ ~HasUnitPattern(Val(time_text)))
        => RatEq(Val(time_remaining_hours), Rat(999, 1))

AllDigits(s) == \A k \in 1..Len(s) : IsDigit(Char(s, k))

\* the integers of s that are immediately followed by the marker, as <<start, end>>
IntegersBefore(s, marker) ==
    {r \in (1..Len(s)) \X (1..Len(s)) :
        /\ r[1] <= r[2]
        /\ AllDigits(SubSeq(s, r[1], r[2]))
        /\ (r[1] = 1 \/ ~IsDigit(Char(s, r[1] - 1)))
        /\ r[2] < Len(s)
        /\ LowerChar(Char(s, r[2] + 1)) = marker}

\* the first integer of s immediately followed by the marker, 0 if there is none
FirstCount(s, marker) ==
    LET found == IntegersBefore(s, marker)
    IN  IF found = {} THEN 0
        ELSE LET r == CHOOSE q \in found : \A o \in found : q[1] <= o[1]
             IN  ToInt(SubSeq(s, r[1], r[2]))

\* C9: with at least one unit pattern the result is 24*D + H + M/60, and the
\* call always returns a value
C9_UnitsSumToHours ==
    pc = "returned" =>
        /\ time_remaining_hours # None
        /\ (time_text # None /\ HasUnitPattern(Val(time_text))) =>
               LET s == Val(time_text)
                   total == 24 * 60 * FirstCount(s, "d") + 60 * FirstCount(s, "h")
                            + FirstCount(s, "m")
               IN  RatEq(Val(time_remaining_hours), Rat(total, 60))
        /\ time_text = Some("2d 3h 30m") => RatEq(Val(time_remaining_hours), Rat(103, 2))
        /\ time_text = Some("5h") => RatEq(Val(time_remaining_hours), Rat(5, 1))

C9_Witness ==
    /\ pc = "returned"
    /\ time_text = Some("2d 3h 30m")
    /\ RatEq(Val(time_remaining_hours), Rat(103, 2))

-----------------------------------------------------------------------------
(* Claims about the price parser *)

\* the digits of s in order
DigitsOf(s) == KeepChars(s, DigitChars)

\* the number of digits of s after its last '.'
RECURSIVE DigitsAfterDot(_)
DigitsAfterDot(s) ==
    IF Len(s) = 0 \/ Char(s, Len(s)) = "." THEN 0
    ELSE DigitsAfterDot(SubSeq(s, 1, Len(s) - 1)) + (IF IsDigit(Char(s, Len(s))) THEN 1 ELSE 0)

\* C10: the result is the number spelled by the digits and the '.' of the text;
\* it is nothing exactly when no digit is left or more than one '.' is, and it
\* is never negative
C10_PriceIsCleanedNumber ==
    (pc = "returned" /\ price_text # None) =>
        LET s == Val(price_text)
            numeric == Len(DigitsOf(s)) > 0 /\ Cardinality(DotPositions(s)) <= 1
            result == Val(current_price)
        IN  /\ current_price # None
            /\ (result = None) <=> ~numeric
            /\ numeric =>
                  /\ Val(result).n >= 0 /\ Val(result).d > 0
                  /\ IF DotPositions(s) = {}
                     THEN RatEq(Val(result), Rat(ToInt(DigitsOf(s)), 1))
                     ELSE RatEq(Val(result), Rat(ToInt(DigitsOf(s)), Pow10(DigitsAfterDot(s))))
            /\ s \in {"Free", "", "1.2.3"} => result = None
            /\ s = "$1,234.56" => RatEq(Val(result), Rat(123456, 100))

C10_Witness ==
    /\ pc = "returned"
    /\ price_text = Some("$1,234.56")
    /\ current_price = Some(Some(Rat(123456, 100)))

-----------------------------------------------------------------------------
(* Claims about the listing extractor *)

BoilerplatePhrases ==
    { "shop on ebay", "shop on ebayopens in a new window or tab", "save this search",
      "get an alert with the newest ads", "sponsored", "advertisement" }

\* the fragment has a title node whose text is non-empty and has no boilerplate phrase
HasListingTitle(item) ==
    /\ Cascade(item.title) # None
    /\ GetText(Cascade(item.title)) # ""
    /\ \A phrase \in BoilerplatePhrases :
          ~Contains(Lower(GetText(Cascade(item.title))), phrase)

HasValidId(item) ==
    /\ Cascade(item.link) # None
    /\ ExtractEbayId(Val(Cascade(item.link))) # None

HasReadablePrice(item) ==
    /\ Cascade(item.price) # None
    /\ ParsePrice(Some(GetText(Cascade(item.price)))) # None

\* C5: a fragment with a non-empty title free of boilerplate phrases, a link
\* that yields a valid identifier and a price that parses yields a record
C5_ListingTitleYieldsRecord ==
    (pc = "returned" /\ HasListingTitle(Val(item_soup)) /\ HasValidId(Val(item_soup))
        /\ HasReadablePrice(Val(item_soup)))
        => auction_data # None

\* C6: no record for a fragment without a readable price, for one whose link
\* holds only a 3-digit identifier, and for one titled 'Shop on eBay'
C6_NoRecordForUnusableFragment ==
    pc = "returned" =>
        LET item == Val(item_soup)
        IN  /\ ~HasReadablePrice(item) => auction_data = None
            /\ Cascade(item.link) = Some(UrlShortId) => auction_data = None
            /\ Cascade(item.title) = Some("Shop on eBay") => auction_data = None

C6_Witness ==
    /\ pc = "returned"
    /\ Cascade(Val(item_soup).title) = Some("Shop on eBay")
    /\ HasValidId(Val(item_soup))
    /\ HasReadablePrice(Val(item_soup))
    /\ auction_data = None

-----------------------------------------------------------------------------
(* Claims about the filter *)

\* C1: on the scenario page with the scenario policy the pipeline returns
\* exactly the MacBook listing, with brand MacBook and a positive score
C1_ScenarioReturnsMacBook ==
    (pc = "filtered" /\ page = Some(ScenarioPage) /\ config = Some(PolicyNarrow))
        => /\ Len(interesting_auctions) = 1
           /\ interesting_auctions[1].title = "MacBook Pro 13"
           /\ interesting_auctions[1].brand = Some("MacBook")
           /\ interesting_auctions[1].interest_score # None
           /\ RatLt(Whole(0), interesting_auctions[1].interest_score)

\* C2: filtering the result of the filter again returns the same records, in
\* the same order, with the same derived fields
C2_FilterIsIdempotent ==
    [][(pc = "filtered" /\ pc' = "refiltered") => refiltered' = interesting_auctions]_vars

C2_Witness ==
    /\ pc = "refiltered"
    /\ Len(refiltered) = 2
    /\ \E k \in 1..2 : /\ refiltered[k].title = ListingUnbranded.title
                       /\ refiltered[k].brand = Some("MacBook")
                       /\ refiltered[k].discount_percent # None

NoKeywordIn(title, keywords) ==
    \A k \in 1..Len(keywords) : ~Contains(Lower(title), Lower(keywords[k]))

\* C3: every returned record has its price within [min_price, max_price], its
\* duration within (0, max_time_remaining_hours], at least min_bids bids and a
\* title without any excluded keyword
C3_SurvivorsSatisfyPolicy ==
    pc = "filtered" =>
        \A k \in 1..Len(interesting_auctions) :
            LET a == interesting_auctions[k]
                cfg == Val(config)
            IN  /\ a.current_price # None
                /\ cfg.MIN_PRICE * a.current_price.d <= a.current_price.n
                /\ a.current_price.n <= cfg.MAX_PRICE * a.current_price.d
                /\ a.time_remaining_hours.n > 0
                /\ a.time_remaining_hours.n
                      <= cfg.MAX_TIME_REMAINING_HOURS * a.time_remaining_hours.d
                /\ a.bids >= cfg.MIN_BIDS
                /\ NoKeywordIn(a.title, cfg.EXCLUDE_KEYWORDS)

C3_Witness ==
    /\ pc = "filtered"
    /\ config = Some(PolicyWide)
    /\ Len(auctions) = 2
    /\ Len(interesting_auctions) = 1
    /\ \E k \in 1..2 : auctions[k].title = ListingBroken.title

\* the place of a returned record in the input of the call
InputIndex(a) == CHOOSE k \in 1..Len(auctions) : auctions[k].ebay_id = a.ebay_id

\* C4: the result is in descending order of interest_score, and records of
\* equal score keep the order they had in the input
C4_SortedStableDescending ==
    pc = "filtered" =>
        /\ \A i, j \in 1..Len(interesting_auctions) :
              i < j =>
                LET a == interesting_auctions[i]
                    b == interesting_auctions[j]
                IN  /\ RatLe(b.interest_score, a.interest_score)
                    /\ RatEq(a.interest_score, b.interest_score)
                          => InputIndex(a) < InputIndex(b)
        /\ (auctions # <<>> /\ [k \in 1..Len(auctions) |-> auctions[k].title]
                                  = [k \in 1..3 |-> TieBatch[k].title]
              /\ config = Some(PolicyWide))
              => [k \in 1..Len(interesting_auctions) |-> interesting_auctions[k].ebay_id]
                    = <<IdOf(2), IdOf(3), IdOf(1)>>

C4_Witness ==
    /\ pc = "filtered"
    /\ Len(interesting_auctions) = 3
    /\ RatEq(interesting_auctions[1].interest_score, Rat(95, 10))
    /\ RatEq(interesting_auctions[2].interest_score, Rat(95, 10))
    /\ RatEq(interesting_auctions[3].interest_score, Whole(4))
    /\ [k \in 1..3 |-> interesting_auctions[k].ebay_id] = <<IdOf(2), IdOf(3), IdOf(1)>>

-----------------------------------------------------------------------------
(* Specification of _extract_brand alone *)

MaxWords == 2

TitleWords ==
    {"Apple", "MacBook", "macbook", "Lenovo", "ThinkPad", "Dell", "XPS", "Alienware",
     "Microsoft", "Surface", "touchpad", "HP"}

RECURSIVE JoinWords(_)
JoinWords(ws) ==
    IF Len(ws) = 0 THEN ""
    ELSE IF Len(ws) = 1 THEN ws[1]
    ELSE ws[1] \o " " \o JoinWords(Tail(ws))

TitleExamples == {"Apple MacBook Pro 16", "Lenovo ThinkPad X1 Carbon", "Dell XPS 13 Laptop"}

BrandTitles == {JoinWords(ws) : ws \in SeqsUpTo(TitleWords, MaxWords)} \cup TitleExamples

InitBrand ==
    /\ pc = "brand"
    /\ brand_title \in {Some(t) : t \in BrandTitles}
    /\ detected_brand = None
    /\ link_url = None
    /\ extracted_id = None
    /\ ParserIdle
    /\ ExtractIdle
    /\ PipelineIdle
    /\ StoreIdle
    /\ ChatIdle

\* brand = self._extract_brand(title)
ExtractBrandCall ==
    /\ pc = "brand"
    /\ detected_brand' = ExtractBrand(Val(brand_title))
    /\ pc' = "brand_done"
    /\ UNCHANGED <<brand_title, link_url, extracted_id, parserVars, extractVars,
                   searchVars, filterVars, storeVars, chatVars>>

NextBrand == ExtractBrandCall

SpecBrand == InitBrand /\ [][NextBrand]_vars

-----------------------------------------------------------------------------
(* C11: the brand detector *)

\* the vocabulary in its declared order, as the claim relies on it
Vocabulary ==
    << "MacBook", "ThinkPad", "XPS", "Surface", "Alienware", "Dell", "Lenovo", "HP",
       "ASUS", "Acer", "MSI", "Apple", "Microsoft", "Razer", "Sony", "Toshiba" >>

\* the sub-brands and the parent each belongs to
SubBrandOf ==
    { <<"MacBook", "Apple">>, <<"ThinkPad", "Lenovo">>, <<"XPS", "Dell">>,
      <<"Alienware", "Dell">>, <<"Surface", "Microsoft">> }

PositionIn(seq, x) == CHOOSE k \in 1..Len(seq) : seq[k] = x

\* whether the entry occurs in the title, letter case ignored
Occurs(entry, t) ==
    \E i \in 0..(Len(t) - Len(entry)) :
        Lower(SubSeq(t, i + 1, i + Len(entry))) = Lower(entry)

\* C11: the detector returns the first vocabulary entry, in declared order, that
\* occurs in the title with letter case ignored, and nothing when none occurs;
\* each sub-brand stands before its parent, so a title holding a sub-brand never
\* gets the parent and gets that sub-brand unless an earlier entry occurs too.
C11_FirstVocabularyEntryWins ==
    pc = "brand_done" =>
        LET t == Val(brand_title)
            hits == {k \in 1..Len(Vocabulary) : Occurs(Vocabulary[k], t)}
        IN  /\ brands = Vocabulary
            /\ \A pair \in SubBrandOf :
                   PositionIn(Vocabulary, pair[1]) < PositionIn(Vocabulary, pair[2])
            /\ hits = {} => detected_brand = None
            /\ hits # {} =>
                   \E k \in hits : /\ detected_brand = Some(Vocabulary[k])
                                   /\ \A j \in 1..(k - 1) : j \notin hits
            /\ \A pair \in SubBrandOf :
                   Occurs(pair[1], t) /\ Occurs(pair[2], t) =>
                       /\ detected_brand # Some(pair[2])
                       /\ (\A j \in 1..(PositionIn(Vocabulary, pair[1]) - 1) : j \notin hits)
                              => detected_brand = Some(pair[1])
            /\ t = "Apple MacBook Pro 16" => detected_brand = Some("MacBook")

\* the title of the claim's example has been classified as MacBook
C11_Witness ==
    /\ pc = "brand_done"
    /\ brand_title = Some("Apple MacBook Pro 16")
    /\ detected_brand = Some("MacBook")

-----------------------------------------------------------------------------
(* C12: the brand predicate *)

\* the record with this identifier is among the returned ones
Returned(list, id) == \E j \in 1..Len(list) : list[j].ebay_id = id

\* the brand field holds a non-empty value
BrandIsSet(r) == r.brand # None /\ r.brand # Some("")

\* the positions of the premium brands that occur in the title, case ignored
PremiumInTitle(r, cfg) ==
    {j \in 1..Len(cfg.PREMIUM_BRANDS) : Occurs(cfg.PREMIUM_BRANDS[j], r.title)}

\* the record, as the call left it, meets the predicates that follow the brand one
LaterPredicatesPass(p, cfg) ==
    /\ TimeRemainingValid(p, cfg)
    /\ HasMinimumActivity(p, cfg)
    /\ ~HasExcludedKeywords(p, cfg)
    /\ HasGoodDiscount(p, cfg).ok

\* the brand predicate is reached: the price is known and within the range
BrandPredicateReached(r, cfg) == r.current_price # None /\ PriceInRange(r, cfg)

\* C12 as stated: the brand predicate passes when the brand is set and premium
\* or when the title holds a premium brand, also for a record whose brand is set
\* to a non-premium value, and a title match stores the matched brand.
C12_TitleRescuesAnyBrand ==
    [][(pc = "filter" /\ pc' = "filtered") =>
         \A k \in 1..Len(auctions) :
            LET r == auctions[k]
                p == auctions'[k]
                cfg == Val(config)
                passes == \/ BrandIsSet(r) /\ InList(Val(r.brand), cfg.PREMIUM_BRANDS)
                          \/ PremiumInTitle(r, cfg) # {}
            IN  BrandPredicateReached(r, cfg) =>
                   /\ ~passes => ~Returned(interesting_auctions', r.ebay_id)
                   /\ passes /\ LaterPredicatesPass(p, cfg)
                         => Returned(interesting_auctions', r.ebay_id)
                   /\ passes /\ ~(BrandIsSet(r) /\ InList(Val(r.brand), cfg.PREMIUM_BRANDS))
                         => \E j \in PremiumInTitle(r, cfg) :
                                p.brand = Some(cfg.PREMIUM_BRANDS[j])]_vars

\* C12 amended: a record whose brand is set passes exactly when that brand is a
\* premium one, whatever its title holds; a record whose brand is not set passes
\* exactly when its title holds a premium brand, and the first such brand of the
\* list is then stored on it; in every other case the brand field is left alone.
C12_TitleOnlyWhenBrandUnset ==
    [][(pc = "filter" /\ pc' = "filtered") =>
         \A k \in 1..Len(auctions) :
            LET r == auctions[k]
                p == auctions'[k]
                cfg == Val(config)
                hits == PremiumInTitle(r, cfg)
                passes == IF BrandIsSet(r) THEN InList(Val(r.brand), cfg.PREMIUM_BRANDS)
                          ELSE hits # {}
            IN  /\ BrandPredicateReached(r, cfg) =>
                      /\ ~passes => ~Returned(interesting_auctions', r.ebay_id)
                      /\ passes /\ LaterPredicatesPass(p, cfg)
                            => Returned(interesting_auctions', r.ebay_id)
                      /\ ~BrandIsSet(r) /\ hits # {} =>
                            \E j \in hits : /\ p.brand = Some(cfg.PREMIUM_BRANDS[j])
                                            /\ \A i \in hits : j <= i
                /\ ~(BrandPredicateReached(r, cfg) /\ ~BrandIsSet(r) /\ hits # {})
                      => p.brand = r.brand]_vars

\* a record with brand HP whose title holds MacBook has been filtered under a
\* policy that lists MacBook only: it meets every other predicate and is dropped
C12_Witness ==
    /\ pc = "filtered"
    /\ config = Some(PolicyNarrow)
    /\ \E k \in 1..Len(auctions) :
          /\ auctions[k].title = ListingAccessory.title
          /\ auctions[k].brand = Some("HP")
          /\ LaterPredicatesPass(auctions[k], PolicyNarrow)
          /\ ~Returned(interesting_auctions, auctions[k].ebay_id)
    /\ \E k \in 1..Len(interesting_auctions) :
          /\ interesting_auctions[k].title = ListingUnbranded.title
          /\ interesting_auctions[k].brand = Some("MacBook")

-----------------------------------------------------------------------------
(* C14: search_auctions never raises *)

\* none of the three selectors finds a fragment on the page
NoCandidateFragment(p) == \A k \in 1..3 : Len(p.found[k]) = 0

\* C14: search_auctions never raises to its caller, and it returns an empty
\* sequence when the fetch fails or when no candidate fragment is on the page
C14_SearchNeverRaises ==
    /\ pc # "raised"
    /\ pc = "filter" /\ (Val(page).status # "ok" \/ NoCandidateFragment(Val(page)))
          => auctions = <<>>

\* the call has returned after a fetch that failed
C14_Witness ==
    /\ pc = "filter"
    /\ Val(page).status = "error"
    /\ auctions = <<>>

-----------------------------------------------------------------------------
(* C15: a record whose evaluation raises *)

\* C15: the filter call does not raise; a record whose evaluation raises (its
\* price holds no value that can be compared) is left out of the result, and
\* every other record of the batch is returned exactly when it qualifies
C15_RaisingRecordIsSkipped ==
    /\ pc # "raised"
    /\ pc = "filtered" =>
          \A k \in 1..Len(auctions) :
              LET r == auctions[k]
              IN  IF r.current_price = None
                  THEN ~Returned(interesting_auctions, r.ebay_id)
                  ELSE Returned(interesting_auctions, r.ebay_id)
                          <=> IsAuctionInteresting(r, Val(config)).verdict = "pass"

\* a batch whose first record has no price has been filtered, and the record
\* that follows it is returned
C15_Witness ==
    /\ pc = "filtered"
    /\ Len(auctions) = 2
    /\ auctions[1].current_price = None
    /\ Len(interesting_auctions) = 1
    /\ interesting_auctions[1].ebay_id = auctions[2].ebay_id

-----------------------------------------------------------------------------
(* AuctionDatabase: the table notified_auctions and the counter of bot_config *)

\* A row keeps the two columns the three operations use. A call that meets
\* sqlite3.Error (the file cannot be opened, the table is locked) is a call
\* with fails = TRUE; the connection context rolls back whatever it had done.

DEFAULT_DAYS_OLD == 7

Row(ebay_item_id, notified_at) ==
    [ebay_item_id |-> ebay_item_id, notified_at |-> notified_at]

\* SELECT 1 FROM notified_auctions WHERE ebay_item_id = ?
HasRow(rows, ebay_item_id) ==
    \E k \in 1..Len(rows) : rows[k].ebay_item_id = ebay_item_id

\* is_auction_notified: an error is answered True
IsAuctionNotified(rows, ebay_item_id, fails) ==
    IF fails THEN TRUE ELSE HasRow(rows, ebay_item_id)

\* the NOT NULL columns all get a value; of the fields bound to them only
\* current_price can hold None in the records used here
NotNullGiven(auction) == auction.current_price # None

\* a mutant: True is returned after an error too
AddNotifiedAuction_TrueOnError(rows, total, auction, at, fails) ==
    IF fails THEN [ok |-> TRUE, rows |-> rows, total |-> total]
    ELSE [ok |-> TRUE,
          rows |-> IF HasRow(rows, auction.ebay_id) \/ ~NotNullGiven(auction)
                   THEN rows
                   ELSE Append(rows, Row(auction.ebay_id, at)),
          total |-> total + 1]

\* add_notified_auction: INSERT OR IGNORE skips the row when the identifier is
\* already there (UNIQUE) or a NOT NULL column gets no value; the counter is
\* raised either way; an error undoes both and is answered False
AddNotifiedAuction(rows, total, auction, at, fails) ==
    IF fails THEN [ok |-> FALSE, rows |-> rows, total |-> total]
    ELSE [ok |-> TRUE,
          rows |-> IF HasRow(rows, auction.ebay_id) \/ ~NotNullGiven(auction)
                   THEN rows
                   ELSE Append(rows, Row(auction.ebay_id, at)),
          total |-> total + 1]

\* DELETE FROM notified_auctions WHERE notified_at < ?
RECURSIVE DeleteOlder(_, _)
DeleteOlder(rows, cutoff_date) ==
    IF Len(rows) = 0 THEN <<>>
    ELSE (IF Head(rows).notified_at < cutoff_date THEN <<>> ELSE <<Head(rows)>>)
         \o DeleteOlder(Tail(rows), cutoff_date)

\* cleanup_old_auctions: the cutoff is local time, the rows hold UTC
CleanupOldAuctions(rows, days_old, local_now, fails) ==
    LET cutoff_date == local_now - days_old
    IN  IF fails THEN rows ELSE DeleteOlder(rows, cutoff_date)

-----------------------------------------------------------------------------
(* Specification of the database: the three operations in any order *)

MaxClock == 2

MaxNotifications == 3

StoreIds == {IdOf(1), IdOf(2)}

\* records as the filter returns them, and one that lacks its price
StoreRecords ==
    {[ListingAir EXCEPT !.ebay_id = id] : id \in StoreIds}
    \cup {[ListingNoPrice EXCEPT !.ebay_id = id] : id \in StoreIds}

DaysOld == {0, 1, DEFAULT_DAYS_OLD}

Offsets == {-1, 0, 1}

RowIds(rows) == {rows[k].ebay_item_id : k \in 1..Len(rows)}

InitStore ==
    /\ pc = "store"
    /\ notified_auctions = <<>>
    /\ total_notifications = 0
    /\ clock = 0
    /\ utc_offset \in Offsets
    /\ db_call = None
    /\ owed = {}
    /\ ParserIdle
    /\ ExtractIdle
    /\ PipelineIdle
    /\ UnitIdle
    /\ ChatIdle

storeFrame == <<pc, parserVars, extractVars, searchVars, filterVars, unitVars, chatVars>>

\* db.is_auction_notified(ebay_item_id)
IsAuctionNotifiedCall ==
    /\ pc = "store"
    /\ \E ebay_item_id \in StoreIds, fails \in BOOLEAN :
          db_call' = Some([op |-> "is_auction_notified", ebay_item_id |-> ebay_item_id,
                           fails |-> fails,
                           result |-> IsAuctionNotified(notified_auctions, ebay_item_id, fails)])
    /\ UNCHANGED <<notified_auctions, total_notifications, clock, utc_offset, owed, storeFrame>>

\* db.add_notified_auction(auction_data)
AddNotifiedAuctionCall ==
    /\ pc = "store"
    /\ total_notifications < MaxNotifications
    /\ \E auction \in StoreRecords, fails \in BOOLEAN :
          LET done == AddNotifiedAuction(notified_auctions, total_notifications,
                                         auction, clock, fails)
          IN  /\ notified_auctions' = done.rows
              /\ total_notifications' = done.total
              /\ db_call' = Some([op |-> "add_notified_auction",
                                  ebay_item_id |-> auction.ebay_id,
                                  fails |-> fails, result |-> done.ok])
              /\ owed' = (IF done.ok /\ NotNullGiven(auction)
                          THEN owed \cup {auction.ebay_id} ELSE owed)
    /\ UNCHANGED <<clock, utc_offset, storeFrame>>

\* db.cleanup_old_auctions(days_old)
CleanupOldAuctionsCall ==
    /\ pc = "store"
    /\ \E days_old \in DaysOld, fails \in BOOLEAN :
          LET left == CleanupOldAuctions(notified_auctions, days_old,
                                         clock + utc_offset, fails)
          IN  /\ notified_auctions' = left
              /\ db_call' = Some([op |-> "cleanup_old_auctions", ebay_item_id |-> "",
                                  fails |-> fails, result |-> None])
              /\ owed' = owed \ (RowIds(notified_auctions) \ RowIds(left))
    /\ UNCHANGED <<total_notifications, clock, utc_offset, storeFrame>>

\* time passes between two calls
Tick ==
    /\ pc = "store"
    /\ clock < MaxClock
    /\ clock' = clock + 1
    /\ UNCHANGED <<notified_auctions, total_notifications, utc_offset, db_call, owed,
                   storeFrame>>

NextStore ==
    \/ IsAuctionNotifiedCall
    \/ AddNotifiedAuctionCall
    \/ CleanupOldAuctionsCall
    \/ Tick

SpecStore == InitStore /\ [][NextStore]_vars

-----------------------------------------------------------------------------
(* C16: the deduplication store gives no false negative *)

RowsOf(ebay_item_id) ==
    {k \in 1..Len(notified_auctions) : notified_auctions[k].ebay_item_id = ebay_item_id}

\* C16: from the moment add_notified_auction has returned success for a record
\* until cleanup_old_auctions deletes its row, the table holds exactly one row
\* for its identifier and is_auction_notified answers true for it; adding an
\* identifier again never makes a second row; and is_auction_notified answers
\* true whenever the table cannot be read.
C16_NoFalseNegative ==
    pc = "store" =>
        /\ \A id \in StoreIds : Cardinality(RowsOf(id)) <= 1
        /\ \A id \in owed : Cardinality(RowsOf(id)) = 1
        /\ db_call # None /\ Val(db_call).op = "is_auction_notified" =>
              /\ Val(db_call).ebay_item_id \in owed => Val(db_call).result = TRUE
              /\ Val(db_call).fails => Val(db_call).result = TRUE

\* an identifier has been added twice and then asked for: one row, answer true
C16_Witness ==
    /\ pc = "store"
    /\ total_notifications = 2
    /\ Len(notified_auctions) = 1
    /\ owed = {IdOf(1)}
    /\ db_call = Some([op |-> "is_auction_notified", ebay_item_id |-> IdOf(1),
                       fails |-> FALSE, result |-> TRUE])

-----------------------------------------------------------------------------
(* C17: the discount / value predicate *)

DesirableSubset == {"MacBook", "ThinkPad", "XPS", "Surface"}

\* the text holds the part, letter case observed
HoldsText(text, part) ==
    \E i \in 0..(Len(text) - Len(part)) : SubSeq(text, i + 1, i + Len(part)) = part

\* the record, as the call left it, met the five predicates before this one
ValuePredicateReached(p, cfg) ==
    /\ p.current_price # None
    /\ PriceInRange(p, cfg)
    /\ IsPremiumBrand(p, cfg).ok
    /\ TimeRemainingValid(p, cfg)
    /\ HasMinimumActivity(p, cfg)
    /\ ~HasExcludedKeywords(p, cfg)

\* original_price is known and greater than current_price
HasRealDiscount(p) ==
    /\ p.original_price # None
    /\ p.original_price.n # 0
    /\ p.current_price.n * p.original_price.d < p.original_price.n * p.current_price.d

\* 100 * (original - current) / original is at least the bound
DiscountAtLeast(p, bound) ==
    100 * (p.original_price.n * p.current_price.d - p.current_price.n * p.original_price.d)
        >= bound * p.original_price.n * p.current_price.d

\* the stored discount is 100 * (original - current) / original
RECURSIVE Gcd(_, _)
Gcd(a, b) == IF b = 0 THEN a ELSE Gcd(b, a % b)

LowestTerms(n, d) == <<n \div Gcd(n, d), d \div Gcd(n, d)>>

DiscountStored(p) ==
    /\ p.discount_percent # None
    /\ LowestTerms(p.discount_percent.n, p.discount_percent.d)
          = LowestTerms(100 * (p.original_price.n * p.current_price.d
                               - p.current_price.n * p.original_price.d),
                        p.original_price.n * p.current_price.d)

AtMost(price, limit) == price.n <= limit * price.d

\* the whole statement, for one reading of "the brand is desirable"
ValueRule(Desirable(_)) ==
    pc = "filtered" =>
        /\ \A k \in 1..Len(auctions) :
              LET p == auctions[k]
                  cfg == Val(config)
              IN  ValuePredicateReached(p, cfg) =>
                     IF HasRealDiscount(p)
                     THEN /\ DiscountStored(p)
                          /\ Returned(interesting_auctions, p.ebay_id)
                                <=> DiscountAtLeast(p, cfg.MIN_DISCOUNT_PERCENT)
                     ELSE /\ p.discount_percent = None
                          /\ Returned(interesting_auctions, p.ebay_id)
                                <=> \/ /\ Desirable(Val(p.brand))
                                       /\ AtMost(p.current_price, 1500)
                                       /\ p.bids >= 5
                                    \/ /\ AtMost(p.current_price, 800)
                                       /\ p.bids >= cfg.MIN_BIDS
        /\ \A k \in 1..Len(interesting_auctions) :
              interesting_auctions[k].discount_percent = None
                  => AtMost(interesting_auctions[k].current_price, 1500)

BrandInSubset(brand) == brand \in DesirableSubset

BrandHoldsSubsetName(brand) == \E name \in DesirableSubset : HoldsText(brand, name)

\* C17 as stated: with a known original price above the current one the discount
\* is stored and decides; otherwise the record passes exactly when its brand is
\* one of MacBook, ThinkPad, XPS, Surface with price <= 1500 and bids >= 5, or
\* price <= 800 and bids >= min_bids; a survivor without a computed discount has
\* price <= 1500.
C17_ValueRuleByMembership == ValueRule(BrandInSubset)

\* C17 amended: the same, with the desirable brands being those whose text
\* contains one of MacBook, ThinkPad, XPS, Surface (letter case observed).
C17_ValueRuleBySubstring == ValueRule(BrandHoldsSubsetName)

\* under a policy that lists "MacBook Pro", a listing at 1000 with 6 bids and no
\* original price has been returned with that brand and no discount, next to a
\* listing returned for its discount of 50%
C17_Witness ==
    /\ pc = "filtered"
    /\ config = Some(PolicyModels)
    /\ Len(auctions) = 2
    /\ auctions[1].title = ListingProModel.title
    /\ auctions[1].brand = Some("MacBook Pro")
    /\ auctions[1].discount_percent = None
    /\ Returned(interesting_auctions, auctions[1].ebay_id)
    /\ auctions[2].title = ListingAlienware.title
    /\ Returned(interesting_auctions, auctions[2].ebay_id)
    /\ LowestTerms(auctions[2].discount_percent.n, auctions[2].discount_percent.d) = <<50, 1>>

-----------------------------------------------------------------------------
(* C18: the interest score *)

BonusNames == <<"MacBook", "ThinkPad", "XPS", "Surface", "Alienware">>

BonusPoints == <<3, 2, 2, 2, 3>>

\* the bonus of the first name that occurs in the brand, 0 when none does
OneBrandBonus(brand) ==
    LET hits == {k \in 1..Len(BonusNames) : brand # None /\ HoldsText(Val(brand), BonusNames[k])}
    IN  IF hits = {} THEN 0
        ELSE BonusPoints[CHOOSE k \in hits : \A j \in hits : k <= j]

\* twice the sum of the parts other than the discount: they are multiples of 1/2
TwiceFixedParts(a) ==
    (IF a.bids < 20 THEN a.bids ELSE 20)
    + 2 * (IF a.time_remaining_hours.n <= a.time_remaining_hours.d THEN 5
           ELSE IF a.time_remaining_hours.n <= 2 * a.time_remaining_hours.d THEN 3
           ELSE IF a.time_remaining_hours.n <= 3 * a.time_remaining_hours.d THEN 1
           ELSE 0)
    + 2 * OneBrandBonus(a.brand)
    + 2 * (IF AtMost(a.current_price, 500) THEN 3
           ELSE IF AtMost(a.current_price, 800) THEN 2
           ELSE IF AtMost(a.current_price, 1200) THEN 1
           ELSE 0)

Distance(x, y) == IF x >= y THEN x - y ELSE y - x

\* the score, a number of hundredths, is within half a hundredth of the sum:
\* 100 * (discount / 10 + fixed parts) = 10 * discount + 50 * (twice the parts)
IsRoundedSum(a) ==
    LET discount == IF a.discount_percent = None THEN [n |-> 0, d |-> 1]
                    ELSE a.discount_percent
        hundredths == a.interest_score.n
    IN  /\ a.interest_score.d = 100
        /\ 2 * Distance(hundredths * discount.d,
                        10 * discount.n + 50 * TwiceFixedParts(a) * discount.d)
              <= discount.d

\* C18: the score of every returned record is the sum, rounded to 2 decimals, of
\* discount/10 when a discount is known, min(bids/2, 10), the urgency points
\* 5/3/1/0 for a duration of at most 1/2/3 hours or more, the bonus of the first
\* brand name found (MacBook 3, ThinkPad 2, XPS 2, Surface 2, Alienware 3) and the
\* price points 3/2/1/0 for a price of at most 500/800/1200 or more; it lies
\* between 0 and 31.
C18_ScoreIsRoundedSum ==
    pc = "filtered" =>
        \A k \in 1..Len(interesting_auctions) :
            LET a == interesting_auctions[k]
            IN  /\ a.interest_score # None
                /\ IsRoundedSum(a)
                /\ 0 <= a.interest_score.n
                /\ a.interest_score.n <= 31 * 100

\* a record that collects every part in full has been returned with score 31
C18_Witness ==
    /\ pc = "filtered"
    /\ \E k \in 1..Len(interesting_auctions) :
          /\ interesting_auctions[k].title = ListingFree.title
          /\ interesting_auctions[k].interest_score = [n |-> 3100, d |-> 100]
    /\ \E k \in 1..Len(interesting_auctions) :
          /\ interesting_auctions[k].title = ListingProModel.title
          /\ interesting_auctions[k].interest_score = [n |-> 1000, d |-> 100]

-----------------------------------------------------------------------------
(* Specification of _extract_ebay_id alone *)

UrlHosts == {"https://www.ebay.com", "https://www.EBAY.com", "https://example.org", ""}

UrlPaths ==
    {"/itm/123456789012", "/itm/123", "/itm/MacBook-Pro/334455667788",
     "/p/123456789012345", "/itm/12345678", "/sch"}

UrlQueries ==
    {"", "?item=20045678&x=1", "?item=99", "?hash=item4dd1", "?hash=item1234567890",
     "?item=1x&hash=item87654321"}

Urls == {host \o path \o query : host \in UrlHosts, path \in UrlPaths, query \in UrlQueries}
        \cup {"", UrlItm, UrlShortId, UrlItemParam, UrlSlug, UrlOtherSite}

InitId ==
    /\ pc = "id"
    /\ link_url \in {Some(u) : u \in Urls}
    /\ extracted_id = None
    /\ brand_title = None
    /\ detected_brand = None
    /\ ParserIdle
    /\ ExtractIdle
    /\ PipelineIdle
    /\ StoreIdle
    /\ ChatIdle

\* ebay_id = self._extract_ebay_id(url)
ExtractEbayIdCall ==
    /\ pc = "id"
    /\ extracted_id' = ExtractEbayId(Val(link_url))
    /\ pc' = "id_done"
    /\ UNCHANGED <<link_url, brand_title, detected_brand, parserVars, extractVars,
                   searchVars, filterVars, storeVars, chatVars>>

NextId == ExtractEbayIdCall

SpecId == InitId /\ [][NextId]_vars

-----------------------------------------------------------------------------
(* C19: the order of the identifier rules *)

\* what a rule captures: the longest run of allowed characters after the
\* leftmost place where the prefix is followed by at least `least` of them
Capture(url, prefix, Allowed(_), least) ==
    LET w == Len(prefix)
        starts == {i \in 1..Len(url) :
                      /\ i + w + least - 1 <= Len(url)
                      /\ SubSeq(url, i, i + w - 1) = prefix
                      /\ \A m \in (i + w)..(i + w + least - 1) : Allowed(Char(url, m))}
    IN  IF starts = {} THEN None
        ELSE LET i == CHOOSE s \in starts : \A t \in starts : s <= t
                 last == CHOOSE j \in (i + w)..Len(url) :
                            /\ \A m \in (i + w)..j : Allowed(Char(url, m))
                            /\ j = Len(url) \/ ~Allowed(Char(url, j + 1))
             IN  Some(SubSeq(url, i + w, last))

\* the four rules in their fixed order
RuleCapture(url, k) ==
    CASE k = 1 -> Capture(url, "/itm/", LAMBDA c : c \notin {"/", "?", "&"}, 1)
      [] k = 2 -> Capture(url, "item=", LAMBDA c : c \in DigitChars, 1)
      [] k = 3 -> Capture(url, "/", LAMBDA c : c \in DigitChars, 12)
      [] k = 4 -> Capture(url, "hash=item", LAMBDA c : c \in DigitChars, 1)

\* the rule's capture is all digits and at least 8 characters long
RuleIsValid(url, k) ==
    /\ RuleCapture(url, k) # None
    /\ \A m \in 1..Len(Val(RuleCapture(url, k))) : Char(Val(RuleCapture(url, k)), m) \in DigitChars
    /\ Len(Val(RuleCapture(url, k))) >= 8

HasMarketplaceDomain(url) == Occurs("ebay.com", url)

\* C19: the identifier is the capture of the first rule, in the order /itm/
\* segment, item= parameter, bare number of 12 or more digits, hash=item, whose
\* capture is all digits and at least 8 characters long, later rules being tried
\* when an earlier one captures an invalid value; nothing is returned when no
\* rule is valid or the URL lacks the marketplace domain.
C19_FirstValidRuleWins ==
    pc = "id_done" =>
        LET url == Val(link_url)
            valid == {k \in 1..4 : RuleIsValid(url, k)}
        IN  /\ ~HasMarketplaceDomain(url) \/ valid = {} => extracted_id = None
            /\ HasMarketplaceDomain(url) /\ valid # {} =>
                  \E k \in valid : /\ extracted_id = RuleCapture(url, k)
                                   /\ \A j \in 1..(k - 1) : j \notin valid
            /\ url = UrlSlug => extracted_id = Some("334455667788")
            /\ url = "https://www.ebay.com/itm/123?item=20045678&x=1"
                  => extracted_id = Some("20045678")

\* the first rule captured a title slug, and the third rule gave the identifier
C19_Witness ==
    /\ pc = "id_done"
    /\ link_url = Some(UrlSlug)
    /\ RuleCapture(UrlSlug, 1) = Some("MacBook-Pro")
    /\ extracted_id = Some("334455667788")

-----------------------------------------------------------------------------
(* C20: the selector cascade *)

EnoughFragments == 5

\* the steps the cascade consults: the most specific selector always, each
\* looser one while the best set of the steps before it has fewer than 5
StepsTried(found) ==
    {1}
    \cup (IF Len(found[1]) < EnoughFragments THEN {2} ELSE {})
    \cup (IF Len(found[1]) < EnoughFragments /\ Len(found[2]) < EnoughFragments
          THEN {3} ELSE {})

\* C20: if the most specific selector yields at least 5 fragments its set is
\* used and no looser one is consulted; otherwise the looser selectors are tried
\* in order while the best set so far has fewer than 5, and the set kept is the
\* largest among the steps tried, the earlier step winning a tie.
C20_CascadeKeepsLargestTried ==
    pc = "filter" /\ Val(page).status = "ok" =>
        LET found == Val(page).found
            tried == StepsTried(found)
        IN  /\ Len(found[1]) >= EnoughFragments => auction_items = found[1]
            /\ \E k \in tried :
                  /\ auction_items = found[k]
                  /\ \A j \in tried : Len(found[j]) <= Len(found[k])
                  /\ \A j \in tried : j < k => Len(found[j]) < Len(found[k])

\* the first selector found 3 fragments, the second 4 and the third 4 as well:
\* the set of the second has been kept
C20_Witness ==
    /\ pc = "filter"
    /\ Val(page).status = "ok"
    /\ Len(Val(page).found[1]) = 3
    /\ Len(Val(page).found[2]) = 4
    /\ Len(Val(page).found[3]) = 4
    /\ Val(page).found[2] # Val(page).found[3]
    /\ auction_items = Val(page).found[2]

-----------------------------------------------------------------------------
(* C22: what the filter writes on the records it is given *)

\* the fields the filter only reads
SameGivenFields(r, p) ==
    /\ p.ebay_id = r.ebay_id
    /\ p.title = r.title
    /\ p.url = r.url
    /\ p.current_price = r.current_price
    /\ p.bids = r.bids
    /\ p.time_remaining_hours = r.time_remaining_hours
    /\ p.time_remaining = r.time_remaining
    /\ p.shipping_text = r.shipping_text
    /\ p.original_price = r.original_price

\* the brand predicate is reached with no brand set and a premium brand in the title
BrandIsBackfilled(r, cfg) ==
    /\ BrandPredicateReached(r, cfg)
    /\ ~BrandIsSet(r)
    /\ PremiumInTitle(r, cfg) # {}

\* C22 as stated: a record that is not returned is left exactly as it was before
\* the call, and for every record the fields external_id, title, url,
\* current_price, bid_count and time_remaining_hours are never changed.
C22_NonSurvivorsUntouched ==
    [][(pc = "filter" /\ pc' = "filtered") =>
         \A k \in 1..Len(auctions) :
            /\ SameGivenFields(auctions[k], auctions'[k])
            /\ ~Returned(interesting_auctions', auctions[k].ebay_id)
                  => auctions'[k] = auctions[k]]_vars

\* C22 amended: interest_score and the reasons are written on survivors only and
\* the given fields are never changed, but the predicates write as they go: a
\* record that is not returned has its brand set from the title when the brand
\* predicate is reached with no brand set and the title holds a premium brand,
\* and has discount_percent stored when the discount predicate is reached with
\* an original price above the current one; it is otherwise left as it was.
C22_PredicatesWriteAsTheyGo ==
    [][(pc = "filter" /\ pc' = "filtered") =>
         \A k \in 1..Len(auctions) :
            LET r == auctions[k]
                p == auctions'[k]
                cfg == Val(config)
            IN  /\ SameGivenFields(r, p)
                /\ ~Returned(interesting_auctions', r.ebay_id) =>
                      /\ p.interest_score = r.interest_score
                      /\ p.filter_reason = r.filter_reason
                      /\ IF BrandIsBackfilled(r, cfg)
                         THEN \E j \in PremiumInTitle(r, cfg) :
                                  p.brand = Some(cfg.PREMIUM_BRANDS[j])
                         ELSE p.brand = r.brand
                      /\ IF ValuePredicateReached(p, cfg) /\ HasRealDiscount(p)
                         THEN DiscountStored(p)
                         ELSE p.discount_percent = r.discount_percent]_vars

\* a listing with no brand and a discount of 2% has been dropped by the discount
\* predicate, and it now carries the brand from its title and that discount
C22_Witness ==
    /\ pc = "filtered"
    /\ config = Some(PolicyWide)
    /\ \E k \in 1..Len(auctions) :
          /\ auctions[k].title = ListingSmallDiscount.title
          /\ ListingSmallDiscount.brand = None
          /\ ~Returned(interesting_auctions, auctions[k].ebay_id)
          /\ auctions[k].brand = Some("Surface")
          /\ auctions[k].discount_percent # None
          /\ auctions[k].interest_score = None
          /\ auctions[k].filter_reason = None

-----------------------------------------------------------------------------
(* EbayBot.handle_search_query: the listings found, by time remaining *)

TOP_SHOWN == 10

\* x.get('time_remaining_hours', 999)
TimeKey(auction) ==
    IF auction.time_remaining_hours = None THEN Whole(SENTINEL_HOURS)
    ELSE auction.time_remaining_hours

\* sorted(key=...) is stable: a listing goes after every listing whose key is
\* not greater
InsertByTime(sorted, auction) ==
    LET ahead == {k \in 1..Len(sorted) : RatLe(TimeKey(sorted[k]), TimeKey(auction))}
        n == Cardinality(ahead)
    IN  SubSeq(sorted, 1, n) \o <<auction>> \o SubSeq(sorted, n + 1, Len(sorted))

RECURSIVE SortByTime(_)
SortByTime(list) ==
    IF Len(list) = 0 THEN <<>>
    ELSE InsertByTime(SortByTime(SubSeq(list, 1, Len(list) - 1)), list[Len(list)])

\* auctions_sorted[:10]
Top10(sorted) ==
    SubSeq(sorted, 1, IF Len(sorted) < TOP_SHOWN THEN Len(sorted) ELSE TOP_SHOWN)

-----------------------------------------------------------------------------
(* Specification of the chat handler on the listings a search hands to it *)

\* The handler is given lists of records as the last lines of
\* _parse_auction_item assemble them: the time text is that of the fragment, or
\* "Buy It Now" when the fragment has none, and the hours are parsed from it.

MaxListed == 3

TimeNodes == {NoNode, OnlyFirst("2h 15m"), OnlySecond("5d"), OnlyThird("45m")}

TimedFragment(time) ==
    Fragment(OnlyFirst("MacBook Pro 13"), OnlyFirst(UrlItm), OnlyFirst("$450.00"),
             [bid |-> OnlyFirst("8 bids"), time |-> time, shipping |-> None])

TimedRecord(time) ==
    AuctionData(TimedFragment(time), "MacBook Pro 13", UrlItm, "", Whole(450))

\* ten fixed-price listings followed by one that ends in 5 days
LongList == Append(Repeat(TimedRecord(NoNode), TOP_SHOWN), TimedRecord(OnlySecond("5d")))

\* identifiers by position, for lists of any length
Numbered(list) ==
    [k \in 1..Len(list) |->
        [list[k] EXCEPT !.ebay_id = "1100000000" \o Char(Digits, (k \div 10) + 1)
                                                 \o Char(Digits, (k % 10) + 1)]]

FoundLists ==
    {Numbered(list) : list \in SeqsUpTo({TimedRecord(t) : t \in TimeNodes}, MaxListed)
                                \cup {LongList}}

InitChat ==
    /\ pc = "chat"
    /\ auctions \in FoundLists
    /\ auctions_sorted = <<>>
    /\ top_10 = <<>>
    /\ config = None
    /\ interesting_auctions = <<>>
    /\ refiltered = <<>>
    /\ page = None
    /\ auction_items = <<>>
    /\ ParserIdle
    /\ ExtractIdle
    /\ UnitIdle
    /\ StoreIdle

\* the handler from the result of the search to the listings shown
HandleSearchQuery ==
    /\ pc = "chat"
    /\ IF Len(auctions) = 0
       THEN /\ pc' = "nothing_found"
            /\ UNCHANGED chatVars
       ELSE /\ auctions_sorted' = SortByTime(auctions)
            /\ top_10' = Top10(SortByTime(auctions))
            /\ pc' = "shown"
    /\ UNCHANGED <<parserVars, extractVars, searchVars, filterVars, unitVars, storeVars>>

NextChat == HandleSearchQuery

SpecChat == InitChat /\ [][NextChat]_vars

-----------------------------------------------------------------------------
(* C21: listings of unknown duration in the handler's order *)

\* the time text of the listing has no unit count
DurationUnknown(a) == ~HasUnitPattern(a.time_remaining)

====
